---- MODULE Spec2Model ----
(***************************************************************************)
(* A model of ContextGeneration (src/test.py): the topic extractor with   *)
(* its retry loop, the schema validator, the reference scorer, the        *)
(* recommendation assembler, the report formatter and the orchestrator.   *)
(*                                                                         *)
(* Python values are tagged records.  A str is the sequence of its        *)
(* characters; a comma-free word that is only ever used whole is written  *)
(* as one symbol, and "," is always a symbol of its own.                  *)
(***************************************************************************)
EXTENDS Integers, Sequences, FiniteSets, TLC

VARIABLES
    pc,                 \* position of the run
    topic_file,         \* content of data/itemCorpus.json, or FileMissing
    refer_file,         \* content of data/conceptRefs.json, or FileMissing
    data,               \* validate_structure's argument
    concepts,           \* find_references' argument
    ret,                \* value returned by the last call of the function applied
    response,           \* outcome of the last invocation of the chain
    attempts,           \* find_topics' attempt counter
    calls,              \* number of invocations of the chain so far
    history,            \* what each invocation so far did: raise, invalid, valid
    relevant_topics,    \* self.relevant_topics
    relevant_references,\* self.relevant_references
    chain_of_thought,   \* self.chain_of_thought, one entry per appended step
    result              \* the pair returned by main

vars == <<pc, topic_file, refer_file, data, concepts, ret, response, attempts,
          calls, history, relevant_topics, relevant_references,
          chain_of_thought, result>>

-----------------------------------------------------------------------------
(* Python values *)

Str(s) == [kind |-> "str", s |-> s]
Num(n) == [kind |-> "num", n |-> n]
List(xs) == [kind |-> "list", items |-> xs]
Dict(f) == [kind |-> "dict", fields |-> f]
None == [kind |-> "none"]

\* The string of one symbol.
W(t) == Str(<<t>>)

\* d[k] = v on a dict: the key is added or overwritten.
SetItem(d, k, v) ==
    Dict([x \in (DOMAIN d.fields) \cup {k} |-> IF x = k THEN v ELSE d.fields[x]])

HasKey(d, k) == k \in DOMAIN d.fields

\* The outcome of a call: a value, or an exception that left the callee.
Returned(v) == [raised |-> FALSE, value |-> v]
Raised == [raised |-> TRUE]

Min(a, b) == IF a <= b THEN a ELSE b

-----------------------------------------------------------------------------
(* Corpus store *)

FileMissing == [kind |-> "missing"]
FileCorrupt == [kind |-> "corrupt"]

\* An openfile without its try/except: the failure is not turned into [].
openfile_unguarded(file) == file

\* json.load of the file; any exception (missing file, bad JSON) gives [].
openfile(file) ==
    IF file.kind \in {"missing", "corrupt"} THEN List(<<>>) ELSE file

RECURSIVE ExtendCategories(_, _, _)
ExtendCategories(topics, i, topic_list) ==
    IF i > Len(topics) THEN Returned(List(topic_list))
    ELSE LET topic == topics[i] IN
         IF topic.kind # "dict" \/ ~HasKey(topic, "category") THEN Raised
         ELSE IF topic.fields["category"].kind # "list" THEN Raised
         ELSE ExtendCategories(topics, i + 1,
                               topic_list \o topic.fields["category"].items)

get_topic_list(file) ==
    LET topics == openfile(file) IN
    IF topics.kind # "list" THEN Raised
    ELSE ExtendCategories(topics.items, 1, <<>>)

-----------------------------------------------------------------------------
(* Schema validator *)

all_str(xs) == \A k \in 1..Len(xs) : xs[k].kind = "str"

\* The body of the for loop, from item i on; FALSE at the first early return.
RECURSIVE ValidateItems(_, _)
ValidateItems(items, i) ==
    IF i > Len(items) THEN TRUE
    ELSE LET item == items[i] IN
         IF item.kind # "dict" THEN FALSE
         ELSE IF ~HasKey(item, "topic") \/ item.fields["topic"].kind # "str"
              THEN FALSE
         ELSE IF ~HasKey(item, "subject_explaination")
                 \/ item.fields["subject_explaination"].kind # "str"
              THEN FALSE
         ELSE IF ~HasKey(item, "related_categories")
                 \/ item.fields["related_categories"].kind # "list"
              THEN FALSE
         ELSE IF item.fields["related_categories"].kind = "list"
                 /\ ~all_str(item.fields["related_categories"].items)
              THEN FALSE
         ELSE ValidateItems(items, i + 1)

\* A validator that forgets to look inside related_categories.
validate_structure_shallow(d) ==
    /\ d.kind = "list"
    /\ \A k \in 1..Len(d.items) :
          /\ d.items[k].kind = "dict"
          /\ HasKey(d.items[k], "topic")
          /\ d.items[k].fields["topic"].kind = "str"
          /\ HasKey(d.items[k], "subject_explaination")
          /\ d.items[k].fields["subject_explaination"].kind = "str"
          /\ HasKey(d.items[k], "related_categories")
          /\ d.items[k].fields["related_categories"].kind = "list"

validate_structure(d) ==
    IF d.kind # "list" THEN FALSE ELSE ValidateItems(d.items, 1)

-----------------------------------------------------------------------------
(* The validator applied to bounded candidates *)

MaxItems == 2

SeqsUpTo(S, n) == UNION {[1..k -> S] : k \in 0..n}

\* Marks a key that the dict does not have; not a Python value.
Absent == [kind |-> "absent"]

\* The dict of the keys whose value is not Absent.
MkItem(t, e, c) ==
    LET v == [k \in {"topic", "subject_explaination", "related_categories"} |->
                 CASE k = "topic" -> t
                   [] k = "subject_explaination" -> e
                   [] OTHER -> c]
    IN Dict([k \in {x \in DOMAIN v : v[x] # Absent} |-> v[k]])

FieldValues == {Absent, W("t"), Num(1)}

CategoryValues ==
    {Absent, W("A"), List(<<>>), List(<<W("A")>>), List(<<W("A"), Num(1)>>)}

CandidateItems ==
    {MkItem(t, e, c) : t \in FieldValues, e \in FieldValues, c \in CategoryValues}
    \cup {W("x"), List(<<>>)}

Candidates ==
    {List(xs) : xs \in SeqsUpTo(CandidateItems, MaxItems)}
    \cup {None, W("x"), Num(1), MkItem(W("t"), W("t"), List(<<W("A")>>))}

InitValidate ==
    /\ pc = "validate"
    /\ data \in Candidates
    /\ topic_file = FileMissing /\ refer_file = FileMissing
    /\ concepts = None /\ ret = None /\ response = None
    /\ attempts = 0 /\ calls = 0 /\ history = <<>>
    /\ relevant_topics = None /\ relevant_references = None
    /\ chain_of_thought = <<>> /\ result = None

CallValidate ==
    /\ pc = "validate"
    /\ ret' = Returned(validate_structure(data))
    /\ pc' = "validated"
    /\ UNCHANGED <<topic_file, refer_file, data, concepts, response, attempts,
                   calls, history, relevant_topics, relevant_references,
                   chain_of_thought, result>>

NextValidate == CallValidate

SpecValidate == InitValidate /\ [][NextValidate]_vars

\* The shape the validator is documented to accept, item by item.
TopicShaped(item) ==
    /\ item.kind = "dict"
    /\ "topic" \in DOMAIN item.fields
    /\ item.fields["topic"].kind = "str"
    /\ "subject_explaination" \in DOMAIN item.fields
    /\ item.fields["subject_explaination"].kind = "str"
    /\ "related_categories" \in DOMAIN item.fields
    /\ item.fields["related_categories"].kind = "list"
    /\ \A k \in 1..Len(item.fields["related_categories"].items) :
          item.fields["related_categories"].items[k].kind = "str"

\* C4: validate_structure returns true exactly when the candidate is a list
\* whose every element is a mapping with a string topic, a string
\* explanation and a related_categories list of strings; any missing field,
\* wrong field type, non-list categories or non-string category gives false.
C4_ValidatorExact ==
    pc = "validated" =>
        (ret.value = TRUE <=>
            (data.kind = "list"
             /\ \A k \in 1..Len(data.items) : TopicShaped(data.items[k])))

\* A well-shaped item followed by one whose only fault is a non-string
\* category is rejected.
C4_Witness ==
    /\ pc = "validated"
    /\ data = List(<<MkItem(W("t"), W("t"), List(<<W("A")>>)),
                     MkItem(W("t"), W("t"), List(<<W("A"), Num(1)>>))>>)
    /\ ret.value = FALSE

-----------------------------------------------------------------------------
(* Reference scorer *)

Range(xs) == {xs[k] : k \in 1..Len(xs)}

\* str.split(","): the pieces between the commas, "" included.
RECURSIVE SplitFrom(_, _, _)
SplitFrom(s, i, cur) ==
    IF i > Len(s) THEN <<Str(cur)>>
    ELSE IF s[i] = "," THEN <<Str(cur)>> \o SplitFrom(s, i + 1, <<>>)
    ELSE SplitFrom(s, i + 1, Append(cur, s[i]))

split(s) == SplitFrom(s, 1, <<>>)

\* An overlap count that treats related_categories as a set.
overlap_count_distinct(cs, cf_list) ==
    Cardinality(Range(cs) \cap Range(cf_list))

\* A count of the concepts of the entry, whatever the categories are.
overlap_count_entry_size(cs, cf_list) == Len(cf_list)

\* len([val for val in concepts if val in cf_list])
overlap_count(cs, cf_list) ==
    Cardinality({k \in 1..Len(cs) : cs[k] \in Range(cf_list)})

Titles(reference_list) ==
    {reference_list[k].fields["Title"] : k \in 1..Len(reference_list)}

\* Dedup that lets the last record of a title replace the first.
append_unique_last_wins(reference_list, item) ==
    IF item.fields["Title"] \in Titles(reference_list)
    THEN [k \in 1..Len(reference_list) |->
             IF reference_list[k].fields["Title"] = item.fields["Title"]
             THEN item ELSE reference_list[k]]
    ELSE Append(reference_list, item)

\* if item['Title'] not in [re['Title'] for re in reference_list]: append
append_unique(reference_list, item) ==
    IF item.fields["Title"] \in Titles(reference_list)
    THEN reference_list
    ELSE Append(reference_list, item)

\* The inner loop over cf['references'], from reference j on.
RECURSIVE ScanReferences(_, _, _, _)
ScanReferences(refs, j, count, reference_list) ==
    IF j > Len(refs) THEN Returned(reference_list)
    ELSE IF refs[j].kind # "dict" THEN Raised
    ELSE LET item == SetItem(refs[j], "star", Num(count)) IN
         IF ~HasKey(item, "Title") THEN Raised
         ELSE ScanReferences(refs, j + 1, count,
                             append_unique(reference_list, item))

\* The outer loop over concept_refers, from entry i on.
RECURSIVE ScanEntries(_, _, _, _)
ScanEntries(concept_refers, i, cs, reference_list) ==
    IF i > Len(concept_refers) THEN Returned(reference_list)
    ELSE LET cf == concept_refers[i] IN
         IF cf.kind # "dict" \/ ~HasKey(cf, "concepts") THEN Raised
         ELSE IF cf.fields["concepts"].kind # "str" THEN Raised
         ELSE LET cf_list == split(cf.fields["concepts"].s)
                  count == overlap_count(cs, cf_list)
              IN IF count > 0
                 THEN IF ~HasKey(cf, "references") THEN Raised
                      ELSE IF cf.fields["references"].kind # "list" THEN Raised
                      ELSE LET r == ScanReferences(cf.fields["references"].items,
                                                   1, count, reference_list)
                           IN IF r.raised THEN Raised
                              ELSE ScanEntries(concept_refers, i + 1, cs, r.value)
                 ELSE ScanEntries(concept_refers, i + 1, cs, reference_list)

Star(item) == item.fields["star"].n

\* A sort by star, descending, that puts a record before its ties.
insert_before_ties(sorted_list, item) ==
    LET k == Cardinality({m \in 1..Len(sorted_list) :
                             Star(sorted_list[m]) > Star(item)})
    IN SubSeq(sorted_list, 1, k) \o <<item>>
       \o SubSeq(sorted_list, k + 1, Len(sorted_list))

\* One step of the stable descending sort: item goes after every record
\* whose star is at least its own.
insert_descending(sorted_list, item) ==
    LET k == Cardinality({m \in 1..Len(sorted_list) :
                             Star(sorted_list[m]) >= Star(item)})
    IN SubSeq(sorted_list, 1, k) \o <<item>>
       \o SubSeq(sorted_list, k + 1, Len(sorted_list))

\* sorted(reference_list, key=lambda x: x["star"], reverse=True)
RECURSIVE SortFrom(_, _, _)
SortFrom(reference_list, i, sorted_list) ==
    IF i > Len(reference_list) THEN sorted_list
    ELSE SortFrom(reference_list, i + 1,
                  insert_descending(sorted_list, reference_list[i]))

sorted_by_star(reference_list) == SortFrom(reference_list, 1, <<>>)

\* The accumulated reference_list before sorting, or the exception.
reference_list_of(cs, file) ==
    LET concept_refers == openfile(file) IN
    IF concept_refers.kind # "list" THEN Raised
    ELSE ScanEntries(concept_refers.items, 1, cs, <<>>)

\* The pair (sorted_list, len(reference_list)), or the exception.
find_references(cs, file) ==
    LET r == reference_list_of(cs, file) IN
    IF r.raised THEN Raised
    ELSE Returned(<<sorted_by_star(r.value), Len(r.value)>>)

-----------------------------------------------------------------------------
(* The scorer applied to bounded categories and concept-reference maps *)

MaxCats == 3
MaxEntries == 2

\* A reference record of the corpus, as json.load gives it.
Reference(title, source) ==
    Dict([k \in {"Title", "Authors", "Source", "Date", "Summary"} |->
             CASE k = "Title" -> W(title)
               [] k = "Authors" -> List(<<W("author")>>)
               [] k = "Source" -> W(source)
               [] k = "Date" -> W("2020")
               [] OTHER -> W("summary")])

R1 == Reference("R1", "s1")
R2 == Reference("R2", "s2")
R3 == Reference("R3", "s3")
R4 == Reference("R4", "s4")
R5 == Reference("R5", "s5")
\* Another record that carries R1's title.
R1b == Reference("R1", "s1b")
\* A record without a Title, and one without a Summary.
RNoTitle == Dict([k \in {"Source"} |-> W("s0")])
RNoSummary ==
    Dict([k \in {"Title", "Authors", "Source", "Date"} |->
             CASE k = "Title" -> W("R6")
               [] k = "Authors" -> List(<<W("author")>>)
               [] k = "Source" -> W("s6")
               [] OTHER -> W("2020")])

Entry(cs, refs) ==
    Dict([k \in {"concepts", "references"} |->
             IF k = "concepts" THEN Str(cs) ELSE List(refs)])

ConceptStrings ==
    {<<"A">>, <<"B">>, <<"A", ",", "B">>, <<"A", ",", "C">>}

ReferenceLists == {<<R1>>, <<R2>>, <<R1b, R2>>, <<R3, R1>>}

\* Entries that make the scorer raise: no concepts, no references, a
\* reference without a Title.
BrokenEntries ==
    {Dict([k \in {"references"} |-> List(<<R1>>)]),
     Dict([k \in {"concepts"} |-> Str(<<"B">>)]),
     Entry(<<"B">>, <<R2, RNoTitle>>)}

ScoreEntries ==
    {Entry(cs, refs) : cs \in ConceptStrings, refs \in ReferenceLists}
    \cup BrokenEntries

ScoreFiles ==
    {List(es) : es \in SeqsUpTo(ScoreEntries, MaxEntries)} \cup {FileMissing}

ScoreConcepts == {List(cs) : cs \in SeqsUpTo({W("A"), W("B")}, MaxCats)}

InitScore ==
    /\ pc = "score"
    /\ concepts \in ScoreConcepts
    /\ refer_file \in ScoreFiles
    /\ topic_file = FileMissing
    /\ data = None /\ ret = None /\ response = None
    /\ attempts = 0 /\ calls = 0 /\ history = <<>>
    /\ relevant_topics = None /\ relevant_references = None
    /\ chain_of_thought = <<>> /\ result = None

CallFindReferences ==
    /\ pc = "score"
    /\ ret' = find_references(concepts.items, refer_file)
    /\ pc' = "scored"
    /\ UNCHANGED <<topic_file, refer_file, data, concepts, response, attempts,
                   calls, history, relevant_topics, relevant_references,
                   chain_of_thought, result>>

NextScore == CallFindReferences

SpecScore == InitScore /\ [][NextScore]_vars

\* What the claims about the scorer speak of, read off the inputs.
MapEntries == openfile(refer_file).items
EntryConcepts(i) == Range(split(MapEntries[i].fields["concepts"].s))
EntryReferences(i) == MapEntries[i].fields["references"].items
\* Entry i shares a category with related_categories.
Overlaps(i) == Range(concepts.items) \cap EntryConcepts(i) # {}
\* Entry i overlaps and references a record of this title.
Offers(i, title) ==
    /\ Overlaps(i)
    /\ \E j \in 1..Len(EntryReferences(i)) :
          EntryReferences(i)[j].fields["Title"] = title
\* The first entry, in map order, that offers the title, and the first
\* record of that title in it.
FirstEntry(title) ==
    CHOOSE i \in 1..Len(MapEntries) :
        Offers(i, title) /\ \A h \in 1..(i - 1) : ~Offers(h, title)
FirstIndex(title) ==
    CHOOSE j \in 1..Len(EntryReferences(FirstEntry(title))) :
        /\ EntryReferences(FirstEntry(title))[j].fields["Title"] = title
        /\ \A h \in 1..(j - 1) :
              EntryReferences(FirstEntry(title))[h].fields["Title"] # title
Ranked == ret.value[1]
TitleAt(k) == Ranked[k].fields["Title"]
Scored == pc = "scored" /\ ~ret.raised

\* C5 as the spec states it: the score of a ranked record is the number of
\* DISTINCT related categories that occur in the concepts of the entry
\* that contributed it, so a repeated category raises no score.
C5_ScoreCountsDistinct ==
    Scored =>
        \A k \in 1..Len(Ranked) :
            Star(Ranked[k]) =
                overlap_count_distinct(
                    concepts.items,
                    split(MapEntries[FirstEntry(TitleAt(k))].fields["concepts"].s))

\* C6: the titles of the returned list are pairwise distinct, every title
\* an overlapping entry offers is in it, and its record is the one of the
\* first encounter in map order, with the score of that entry.
C6_DedupFirstWins ==
    Scored =>
        /\ \A k, m \in 1..Len(Ranked) : k # m => TitleAt(k) # TitleAt(m)
        /\ \A i \in 1..Len(MapEntries) :
              Overlaps(i) =>
                 \A j \in 1..Len(EntryReferences(i)) :
                     \E k \in 1..Len(Ranked) :
                         TitleAt(k) = EntryReferences(i)[j].fields["Title"]
        /\ \A k \in 1..Len(Ranked) :
              LET i == FirstEntry(TitleAt(k))
                  first == EntryReferences(i)[FirstIndex(TitleAt(k))]
              IN /\ [x \in DOMAIN first.fields |-> Ranked[k].fields[x]]
                      = first.fields
                 /\ Star(Ranked[k]) =
                      Cardinality({n \in 1..Len(concepts.items) :
                                      concepts.items[n] \in EntryConcepts(i)})
        /\ ret.value[2] = Len(Ranked)

\* Two overlapping entries offer R1's title, the later one with the higher
\* overlap, and the list holds the first record once with the lower score.
C6_Witness ==
    /\ Scored
    /\ concepts = List(<<W("A"), W("B")>>)
    /\ refer_file = List(<<Entry(<<"A">>, <<R1>>),
                           Entry(<<"A", ",", "B">>, <<R1b, R2>>)>>)
    /\ Ranked = <<SetItem(R2, "star", Num(2)), SetItem(R1, "star", Num(1))>>

\* Where a title was first appended: (entry, index in the entry).
Earlier(t1, t2) ==
    \/ FirstEntry(t1) < FirstEntry(t2)
    \/ FirstEntry(t1) = FirstEntry(t2) /\ FirstIndex(t1) < FirstIndex(t2)

\* C7: the returned list is ordered by score descending and records of
\* equal score keep the order of their appending (map order, then order
\* within the entry); categories [A,B] with entries [{A,C}:[R1],
\* {A,B}:[R2]] give [R2 (2), R1 (1)].
C7_StableDescending ==
    Scored =>
        /\ \A k, m \in 1..Len(Ranked) :
              k < m =>
                 /\ Star(Ranked[k]) >= Star(Ranked[m])
                 /\ Star(Ranked[k]) = Star(Ranked[m])
                       => Earlier(TitleAt(k), TitleAt(m))
        /\ (concepts = List(<<W("A"), W("B")>>)
            /\ refer_file = List(<<Entry(<<"A", ",", "C">>, <<R1>>),
                                   Entry(<<"A", ",", "B">>, <<R2>>)>>))
              => Ranked = <<SetItem(R2, "star", Num(2)),
                            SetItem(R1, "star", Num(1))>>

\* The sort moved a record past two that tie and stay in map order.
C7_Witness ==
    /\ Scored
    /\ concepts = List(<<W("A"), W("B")>>)
    /\ refer_file = List(<<Entry(<<"A">>, <<R3, R1>>),
                           Entry(<<"A", ",", "B">>, <<R2>>)>>)
    /\ Ranked = <<SetItem(R2, "star", Num(2)), SetItem(R3, "star", Num(1)),
                  SetItem(R1, "star", Num(1))>>

-----------------------------------------------------------------------------
(* Recommendation assembler *)

N == 2

\* A slice that stops one record early.
first_n_short(xs, n) == SubSeq(xs, 1, Min(n - 1, Len(xs)))

\* xs[:n]
first_n(xs, n) == SubSeq(xs, 1, Min(n, Len(xs)))

\* An enrichment that builds a new topic from the title and the
\* recommendations, leaving the other fields behind.
enrich_rebuilds(ele, file) ==
    IF ele.kind # "dict" \/ ~HasKey(ele, "related_categories") THEN Raised
    ELSE LET related_concepts == ele.fields["related_categories"] IN
         IF related_concepts.kind # "list" THEN Raised
         ELSE LET r == find_references(related_concepts.items, file) IN
              IF r.raised THEN Raised
              ELSE Returned(Dict([k \in {"topic", "recommended_references"} |->
                                    IF k = "topic" THEN ele.fields["topic"]
                                    ELSE List(first_n(r.value[1], N))]))

\* The body of the try block for one topic: the enriched topic, or the
\* exception that the except clause swallows.
enrich(ele, file) ==
    IF ele.kind # "dict" \/ ~HasKey(ele, "related_categories") THEN Raised
    ELSE LET related_concepts == ele.fields["related_categories"] IN
         IF related_concepts.kind # "list" THEN Raised
         ELSE LET r == find_references(related_concepts.items, file) IN
              IF r.raised THEN Raised
              ELSE Returned(SetItem(ele, "recommended_references",
                                    List(first_n(r.value[1], N))))

\* A loop that gives up the batch at the first topic whose scoring raises.
RECURSIVE EnrichFromAbort(_, _, _)
EnrichFromAbort(topics, i, file) ==
    IF i > Len(topics) THEN <<>>
    ELSE LET r == enrich(topics[i], file) IN
         IF r.raised THEN SubSeq(topics, i, Len(topics))
         ELSE <<r.value>> \o EnrichFromAbort(topics, i + 1, file)

\* The for loop from topic i on: a topic whose scoring raises is left as
\* it was (continue) and the loop goes on.
RECURSIVE EnrichFrom(_, _, _)
EnrichFrom(topics, i, file) ==
    IF i > Len(topics) THEN <<>>
    ELSE LET r == enrich(topics[i], file) IN
         <<IF r.raised THEN topics[i] ELSE r.value>>
         \o EnrichFrom(topics, i + 1, file)

\* The list handed in, its topics enriched in place; iterating anything
\* that is not a list of topics is not modelled and counts as a raise.
find_relevent_refs(topics, file) ==
    IF topics.kind # "list" THEN Raised
    ELSE Returned(List(EnrichFrom(topics.items, 1, file)))

-----------------------------------------------------------------------------
(* The assembler applied to bounded topic lists and maps *)

MaxTopics == 3

Topic(cs) == MkItem(W("t"), W("e"), List(cs))

AssembleTopics ==
    {Topic(cs) : cs \in {<<>>, <<W("A")>>, <<W("B")>>, <<W("A"), W("B")>>}}

\* B's entry has no references key: scoring raises for a topic with B.
FileBrokenB ==
    List(<<Entry(<<"A">>, <<R1>>), Dict([k \in {"concepts"} |-> Str(<<"B">>)])>>)
\* Five distinct titles for a topic with A, two for a topic with B alone.
FileFive ==
    List(<<Entry(<<"A">>, <<R1, R2, R3>>), Entry(<<"A", ",", "B">>, <<R4, R5>>)>>)

AssembleFiles ==
    {FileMissing,
     FileCorrupt,
     List(<<Entry(<<"A">>, <<R1>>)>>),
     FileFive,
     FileBrokenB,
     List(<<Entry(<<"B">>, <<R2, RNoTitle>>), Entry(<<"A">>, <<R1>>)>>),
     List(<<Entry(<<"A">>, <<RNoSummary>>), Entry(<<"B">>, <<R2>>)>>),
     List(<<Dict([k \in {"references"} |-> List(<<R1>>)])>>),
     List(<<Entry(<<"A", ",", "B">>, <<R1b, R2>>), Entry(<<"B">>, <<R3, R1>>)>>)}

InitAssemble ==
    /\ pc = "assemble"
    /\ relevant_topics \in
          {List(ts) : ts \in SeqsUpTo(AssembleTopics, MaxTopics)}
    /\ data = relevant_topics
    /\ refer_file \in AssembleFiles
    /\ topic_file = FileMissing
    /\ concepts = None /\ ret = None /\ response = None
    /\ attempts = 0 /\ calls = 0 /\ history = <<>>
    /\ relevant_references = None
    /\ chain_of_thought = <<>> /\ result = None

\* data keeps the topics as they were handed in; the list itself is
\* enriched in place and is also what the call returns.
CallFindReleventRefs ==
    /\ pc = "assemble"
    /\ ret' = find_relevent_refs(relevant_topics, refer_file)
    /\ relevant_topics' = IF ret'.raised THEN relevant_topics ELSE ret'.value
    /\ pc' = "assembled"
    /\ UNCHANGED <<topic_file, refer_file, data, concepts, response, attempts,
                   calls, history, relevant_references, chain_of_thought,
                   result>>

NextAssemble == CallFindReleventRefs

SpecAssemble == InitAssemble /\ [][NextAssemble]_vars

\* The scorer's outcome for the categories of the i-th topic handed in.
ScoringOf(i) ==
    find_references(data.items[i].fields["related_categories"].items, refer_file)
Enriched(topic) == "recommended_references" \in DOMAIN topic.fields

\* C8: for every topic the assembler enriches, recommended_references is
\* the first min(2, length) records of the ranked list, in ranked order:
\* 2 of 5, 1 of 1, none of none.
C8_TopNTruncation ==
    (pc = "assembled" /\ ~ret.raised) =>
        \A i \in 1..Len(ret.value.items) :
            Enriched(ret.value.items[i]) =>
                LET ranked == ScoringOf(i).value[1]
                    recs == ret.value.items[i].fields["recommended_references"].items
                IN /\ Len(recs) = (IF Len(ranked) < 2 THEN Len(ranked) ELSE 2)
                   /\ \A k \in 1..Len(recs) : recs[k] = ranked[k]
                   /\ Len(ranked) = 5 => Len(recs) = 2
                   /\ Len(ranked) = 1 => Len(recs) = 1
                   /\ Len(ranked) = 0 => Len(recs) = 0

\* One batch with a 5-element ranked list cut to 2, a 1-element list kept
\* whole and an empty list.
C8_Witness ==
    /\ pc = "assembled" /\ ~ret.raised
    /\ \E i \in 1..Len(ret.value.items) :
          /\ Enriched(ret.value.items[i])
          /\ Len(ScoringOf(i).value[1]) = 5
          /\ ret.value.items[i].fields["recommended_references"].items
                = <<SetItem(R4, "star", Num(2)), SetItem(R5, "star", Num(2))>>
    /\ \E i \in 1..Len(ret.value.items) :
          /\ Enriched(ret.value.items[i])
          /\ Len(ScoringOf(i).value[1]) = 0
          /\ ret.value.items[i].fields["recommended_references"].items = <<>>

\* C9: a topic whose scoring raises is left as it was, without a
\* recommended_references field; every other topic of the batch, before
\* and after it, is scored and enriched; the call returns the topic list
\* and raises nothing.
C9_FailureIsolated ==
    pc = "assembled" =>
        /\ ~ret.raised
        /\ ret.value.kind = "list"
        /\ Len(ret.value.items) = Len(data.items)
        /\ \A i \in 1..Len(data.items) :
              IF ScoringOf(i).raised
              THEN /\ ret.value.items[i] = data.items[i]
                   /\ ~Enriched(ret.value.items[i])
              ELSE /\ Enriched(ret.value.items[i])
                   /\ [x \in DOMAIN data.items[i].fields |->
                          ret.value.items[i].fields[x]] = data.items[i].fields

\* Scoring raises for the middle topic only; its neighbours are enriched.
C9_Witness ==
    /\ pc = "assembled" /\ ~ret.raised
    /\ Len(data.items) = 3
    /\ ~ScoringOf(1).raised /\ ScoringOf(2).raised /\ ~ScoringOf(3).raised
    /\ Enriched(ret.value.items[1])
    /\ ~Enriched(ret.value.items[2])
    /\ Enriched(ret.value.items[3])

-----------------------------------------------------------------------------
(* Topic extractor *)

max_retries == 3

\* A degrade-to-empty that hands back no topic at all.
Placeholder_none == List(<<>>)

\* [{"topic": "", "subject_explaination": "", "related_categories": []}]
Placeholder == List(<<MkItem(Str(<<>>), Str(<<>>), List(<<>>))>>)

\* A loop that counts no attempt when the chain raises.
find_topics_iteration_uncounted(n, outcome) ==
    IF outcome.raised
    THEN [attempts |-> n, returns |-> FALSE, value |-> None]
    ELSE IF validate_structure(outcome.value)
         THEN [attempts |-> n, returns |-> TRUE, value |-> outcome.value]
         ELSE [attempts |-> n, returns |-> FALSE, value |-> None]

\* A loop that hands back the placeholder for a response it accepted.
find_topics_iteration_discards(n, outcome) ==
    IF outcome.raised
    THEN [attempts |-> n + 1, returns |-> n + 1 >= max_retries,
          value |-> Placeholder]
    ELSE IF validate_structure(outcome.value)
         THEN [attempts |-> n, returns |-> TRUE, value |-> Placeholder]
         ELSE [attempts |-> n, returns |-> FALSE, value |-> None]

\* One pass of the while loop with n attempts counted so far, given what
\* chain.invoke did: the new count, and whether find_topics returns now
\* (and what).  Only the except clause counts an attempt; a response that
\* parses and fails validate_structure falls through to the next pass.
\* When the count reaches max_retries the loop ends and the placeholder
\* is returned.
find_topics_iteration(n, outcome) ==
    IF outcome.raised
    THEN [attempts |-> n + 1, returns |-> n + 1 >= max_retries,
          value |-> Placeholder]
    ELSE IF validate_structure(outcome.value)
         THEN [attempts |-> n, returns |-> TRUE, value |-> outcome.value]
         ELSE [attempts |-> n, returns |-> FALSE, value |-> None]

-----------------------------------------------------------------------------
(* Report formatter *)

Digit(k) == <<"1", "2", "3", "4", "5", "6", "7", "8", "9">>[k]
\* Labels that start one letter late: chr(65 + i).
Letter_late(i) == <<"B", "C", "D", "E", "F", "G", "H", "I", "J">>[i]

\* chr(64 + i)
Letter(i) == <<"A", "B", "C", "D", "E", "F", "G", "H", "I">>[i]

\* ', '.join(xs) for a list of str
RECURSIVE JoinFrom(_, _)
JoinFrom(xs, k) ==
    IF k > Len(xs) THEN <<>>
    ELSE IF k = Len(xs) THEN xs[k].s
    ELSE xs[k].s \o <<",", " ">> \o JoinFrom(xs, k + 1)

join(v) ==
    IF v.kind = "list" /\ all_str(v.items)
    THEN Returned(JoinFrom(v.items, 1))
    ELSE Raised

\* A str put into an f-string.  Every such value of the model is a str;
\* the rendering of any other value is not modelled.
Text(v) == IF v.kind = "str" THEN v.s ELSE <<"?">>

\* format_references: the numbered sub-list, from reference i on.
RECURSIVE FormatReferencesFrom(_, _)
FormatReferencesFrom(refs, i) ==
    IF i > Len(refs) THEN Returned(<<>>)
    ELSE LET ref == refs[i] IN
         IF ref.kind # "dict"
            \/ ~({"Title", "Authors", "Source", "Date", "Summary"}
                    \subseteq DOMAIN ref.fields)
         THEN Raised
         ELSE LET authors == join(ref.fields["Authors"]) IN
              IF authors.raised THEN Raised
              ELSE LET rest == FormatReferencesFrom(refs, i + 1) IN
                   IF rest.raised THEN Raised
                   ELSE Returned(
                          <<"\n", Digit(i), ". Title: ">> \o Text(ref.fields["Title"])
                          \o <<"\n   Authors: ">> \o authors.value
                          \o <<"\n   Source: ">> \o Text(ref.fields["Source"])
                          \o <<"\n   Date: ">> \o Text(ref.fields["Date"])
                          \o <<"\n   Summary: ">> \o Text(ref.fields["Summary"])
                          \o <<"\n">> \o rest.value)

\* The loop over the topics, from topic i on: one labelled section each.
RECURSIVE FormatTopicsFrom(_, _)
FormatTopicsFrom(topics, i) ==
    IF i > Len(topics) THEN Returned(<<>>)
    ELSE LET item == topics[i] IN
         IF item.kind # "dict"
            \/ ~({"topic", "subject_explaination", "related_categories"}
                    \subseteq DOMAIN item.fields)
         THEN Raised
         ELSE LET cats == join(item.fields["related_categories"]) IN
              IF cats.raised \/ ~HasKey(item, "recommended_references") THEN Raised
              ELSE IF item.fields["recommended_references"].kind # "list" THEN Raised
              ELSE LET refs == FormatReferencesFrom(
                                  item.fields["recommended_references"].items, 1)
                   IN IF refs.raised THEN Raised
                      ELSE LET rest == FormatTopicsFrom(topics, i + 1) IN
                           IF rest.raised THEN Raised
                           ELSE Returned(
                                  <<"\n(", Letter(i), ") Topic: ">>
                                  \o Text(item.fields["topic"]) \o <<"\n">>
                                  \o <<"    Subject Explaination: ">>
                                  \o Text(item.fields["subject_explaination"]) \o <<"\n">>
                                  \o <<"    Related Categories: ">>
                                  \o cats.value \o <<"\n">>
                                  \o <<"    Recommended References:\n">>
                                  \o refs.value \o <<"\n">>
                                  \o rest.value)

\* A formatter that gives an empty report when a section cannot be
\* written, instead of raising.
format_relevant_refs_lenient(v) ==
    IF v.kind = "list"
    THEN LET r == FormatTopicsFrom(v.items, 1) IN
         IF r.raised THEN Returned(Str(<<>>)) ELSE Returned(Str(r.value))
    ELSE IF v.kind = "str" /\ v.s = <<>> THEN Returned(Str(<<>>))
    ELSE Raised

\* The report as a str, or the exception.  Handed a non-empty str, the loop
\* takes its first character as a topic and indexing it raises.
format_relevant_refs(v) ==
    IF v.kind = "list"
    THEN LET r == FormatTopicsFrom(v.items, 1) IN
         IF r.raised THEN Raised ELSE Returned(Str(r.value))
    ELSE IF v.kind = "str" /\ v.s = <<>> THEN Returned(Str(<<>>))
    ELSE Raised

-----------------------------------------------------------------------------
(* Orchestrator: one run of main *)

MaxCalls == 5

\* The narrative is the sequence of the texts appended to it; a value put
\* into an f-string is kept as the value.
Step1 == [step |-> 1, shown |-> W("term_paper_string")]
Step2(topics) == [step |-> 2, shown |-> topics]
\* An except branch that appends the heading without the sentence.
Step2NotFound_silent == [step |-> 2, shown |-> Str(<<>>)]
Step2NotFound == [step |-> 2, shown |-> W("No relevant topics found.")]
Step3(refs) == [step |-> 3, shown |-> refs]
Step3NotFound == [step |-> 3, shown |-> W("No relevant references found.")]

NoReferencesFound == W("No references found")

\* A main whose except clause reports the wrong text.
main_return_wrong_text(formatted, narrative) ==
    IF formatted.raised THEN <<W("No relevant references found"), narrative>>
    ELSE <<formatted.value, narrative>>

\* The pair main returns: the report, or the fallback when formatting raised.
main_return(formatted, narrative) ==
    IF formatted.raised THEN <<NoReferencesFound, narrative>>
    ELSE <<formatted.value, narrative>>

CategoryFileOk ==
    List(<<Dict([k \in {"category"} |-> List(<<W("A"), W("B")>>)])>>)
\* Readable JSON whose second record has no category key.
CategoryFileBroken ==
    List(<<Dict([k \in {"category"} |-> List(<<W("A")>>)]),
           Dict([k \in {"name"} |-> W("x")])>>)

TopicFiles == {FileMissing, CategoryFileOk, CategoryFileBroken}

\* What one invocation of prompt | model | parser can do: raise, or give
\* a parsed response.
ChainOutcomes ==
    {Raised}
    \cup {Returned(v) :
            v \in {Dict(<<>>),
                   List(<<MkItem(W("t"), Absent, List(<<>>))>>),
                   List(<<>>),
                   List(<<Topic(<<W("A")>>)>>),
                   List(<<Topic(<<W("A")>>), Topic(<<W("B")>>)>>),
                   List(<<Topic(<<W("B")>>), Topic(<<W("A"), W("B")>>),
                          Topic(<<>>)>>)}}

\* The response has the documented Topic shape.
WellShaped(v) ==
    v.kind = "list" /\ \A k \in 1..Len(v.items) : TopicShaped(v.items[k])

OutcomeKind(outcome) ==
    IF outcome.raised THEN "raise"
    ELSE IF WellShaped(outcome.value) THEN "valid" ELSE "invalid"

Init ==
    /\ pc = "start"
    /\ topic_file \in TopicFiles
    /\ refer_file \in AssembleFiles
    /\ data = None /\ concepts = None /\ ret = None /\ response = None
    /\ attempts = 0 /\ calls = 0 /\ history = <<>>
    /\ relevant_topics = None /\ relevant_references = None
    /\ chain_of_thought = <<Step1>>
    /\ result = None

\* main -> generate_chain_of_thought -> _append_relevant_topics ->
\* find_relevant_topics: get_topic_list, then find_topics up to its loop.
\* If get_topic_list raises, _append_relevant_topics catches it.
GetTopicList ==
    /\ pc = "start"
    /\ LET topics == get_topic_list(topic_file) IN
       IF topics.raised
       THEN /\ relevant_topics' = List(<<>>)
            /\ chain_of_thought' = Append(chain_of_thought, Step2NotFound)
            /\ pc' = "references"
       ELSE /\ pc' = "find_topics"
            /\ UNCHANGED <<relevant_topics, chain_of_thought>>
    /\ UNCHANGED <<topic_file, refer_file, data, concepts, ret, response,
                   attempts, calls, history, relevant_references, result>>

\* One pass of find_topics' loop; when it returns, _append_relevant_topics
\* stores the topics and appends Step 2.
Invoke ==
    /\ pc = "find_topics"
    /\ attempts < max_retries
    /\ calls < MaxCalls
    /\ \E outcome \in ChainOutcomes :
          LET it == find_topics_iteration(attempts, outcome) IN
          /\ response' = outcome
          /\ calls' = calls + 1
          /\ history' = Append(history, OutcomeKind(outcome))
          /\ attempts' = it.attempts
          /\ IF it.returns
             THEN /\ ret' = Returned(it.value)
                  /\ relevant_topics' = it.value
                  /\ chain_of_thought' = Append(chain_of_thought, Step2(it.value))
                  /\ pc' = "references"
             ELSE UNCHANGED <<ret, relevant_topics, chain_of_thought, pc>>
    /\ UNCHANGED <<topic_file, refer_file, data, concepts,
                   relevant_references, result>>

\* _append_relevant_references: the topics are enriched in place, so
\* relevant_topics and relevant_references are the same list afterwards.
AppendRelevantReferences ==
    /\ pc = "references"
    /\ LET r == find_relevent_refs(relevant_topics, refer_file) IN
       IF r.raised
       THEN /\ relevant_references' = W("No relevant references found")
            /\ chain_of_thought' = Append(chain_of_thought, Step3NotFound)
            /\ UNCHANGED relevant_topics
       ELSE /\ relevant_references' = r.value
            /\ relevant_topics' = r.value
            /\ chain_of_thought' = Append(chain_of_thought, Step3(r.value))
    /\ pc' = "format"
    /\ UNCHANGED <<topic_file, refer_file, data, concepts, ret, response,
                   attempts, calls, history, result>>

\* main's return: the formatted report, or the except clause's fallback.
FormatAndReturn ==
    /\ pc = "format"
    /\ result' = main_return(format_relevant_refs(relevant_references),
                             chain_of_thought)
    /\ pc' = "done"
    /\ UNCHANGED <<topic_file, refer_file, data, concepts, ret, response,
                   attempts, calls, history, relevant_topics,
                   relevant_references, chain_of_thought>>

Next == GetTopicList \/ Invoke \/ AppendRelevantReferences \/ FormatAndReturn

Spec == Init /\ [][Next]_vars

-----------------------------------------------------------------------------
(* Claims about the extractor's retry loop and about main *)

EveryCall(kind) ==
    calls > 0 /\ \A k \in 1..Len(history) : history[k] = kind
Looping == pc = "find_topics"

\* C1 as the spec states it: when every response parses but fails
\* validate_structure, find_topics ends after exactly max_retries
\* invocations and returns the single empty-placeholder topic.
C1_RetryBoundOnInvalid ==
    (EveryCall("invalid") /\ calls >= max_retries) =>
        /\ calls = max_retries
        /\ ~Looping
        /\ ret = Returned(Placeholder)

\* C2: when every invocation raises, find_topics makes exactly max_retries
\* invocations, then returns the single empty-placeholder topic; nothing
\* is raised to its caller.
C2_FailuresNeverRaised ==
    EveryCall("raise") =>
        /\ calls <= max_retries
        /\ calls < max_retries => Looping /\ ret = None
        /\ calls = max_retries =>
              /\ ~Looping
              /\ ret = Returned(Placeholder)
              /\ ret.value.items
                    = <<MkItem(Str(<<>>), Str(<<>>), List(<<>>))>>

\* Three invocations, all raising, and the placeholder handed back.
C2_Witness ==
    /\ history = <<"raise", "raise", "raise">>
    /\ calls = 3
    /\ pc = "references"
    /\ ret = Returned(Placeholder)

\* C3: find_topics returns at the first attempt whose parsed response has
\* the valid shape: that response is the last invocation made, and what
\* is returned is exactly that response.
C3_ReturnsFirstValid ==
    \A k \in 1..Len(history) :
        history[k] = "valid" =>
            /\ k = Len(history)
            /\ k = calls
            /\ ~Looping
            /\ ~response.raised
            /\ ret = Returned(response.value)

\* A valid response at the third invocation, after a raise and an invalid
\* response, is what find_topics returned; nothing was invoked after it.
C3_Witness ==
    /\ history = <<"raise", "invalid", "valid">>
    /\ pc = "done"
    /\ calls = 3
    /\ ret = Returned(List(<<Topic(<<W("A")>>), Topic(<<W("B")>>)>>))

ExtractionFailed == chain_of_thought[2] = Step2NotFound
AssemblyFailed == chain_of_thought[3] = Step3NotFound
FormatFailed == format_relevant_refs(relevant_references).raised
Done == pc = "done"

\* C10 as the spec states it: main returns a pair, and whenever a stage or
\* the formatter fails the pair is ("No references found", narrative).
C10_FallbackOnAnyFailure ==
    Done =>
        /\ Len(result) = 2
        /\ (ExtractionFailed \/ AssemblyFailed \/ FormatFailed)
              => result = <<NoReferencesFound, chain_of_thought>>

\* C10, amended: main returns a pair whose second component is the
\* narrative; when the formatter fails the pair is ("No references
\* found", narrative); when it does not, the first component is the
\* formatted report, and after a failed extraction stage that report is
\* the empty string.
C10_NeverRaises ==
    Done =>
        /\ Len(result) = 2
        /\ result[2] = chain_of_thought
        /\ Len(chain_of_thought) = 3
        /\ FormatFailed => result[1] = W("No references found")
        /\ ~FormatFailed =>
              result[1] = format_relevant_refs(relevant_references).value
        /\ ExtractionFailed => ~FormatFailed /\ result[1] = Str(<<>>)

\* The formatter failed on a topic that scoring left without references,
\* and main returned the fallback.
C10_Witness ==
    /\ Done
    /\ FormatFailed
    /\ \E i \in 1..Len(relevant_references.items) :
          ~Enriched(relevant_references.items[i])
    /\ result = <<W("No references found"), chain_of_thought>>

-----------------------------------------------------------------------------
(* Claims about a run whose extraction ends with the placeholder *)

\* find_topics used up its attempts and handed back the placeholder.
Exhausted == attempts = max_retries /\ ret = Returned(Placeholder)

\* C11 as the spec states it: when extraction yields only the empty
\* placeholder topic, the narrative main returns records the fixed "No
\* relevant topics found" sentence for the topic-extraction step.
C11_PlaceholderNarrated ==
    (Done /\ Exhausted) =>
        /\ result[2][2].step = 2
        /\ result[2][2].shown = W("No relevant topics found.")

\* Some entry of the concept-reference map cannot even be compared with
\* an empty category list: it is no mapping or has no concepts string.
MapUnreadableEntry ==
    \E i \in 1..Len(openfile(refer_file).items) :
        LET cf == openfile(refer_file).items[i] IN
        \/ cf.kind # "dict"
        \/ "concepts" \notin DOMAIN cf.fields
        \/ cf.fields["concepts"].kind # "str"

\* The report of one section (A) with empty topic, explanation,
\* categories and reference sub-list.
EmptySectionReport ==
    Str(<<"\n(", "A", ") Topic: ", "\n",
          "    Subject Explaination: ", "\n",
          "    Related Categories: ", "\n",
          "    Recommended References:\n", "\n">>)

\* C12 as the spec states it: when extraction yields only the placeholder,
\* main returns the one-section report with empty fields, never the
\* fallback.
C12_PlaceholderReported ==
    (Done /\ Exhausted) => result[1] = EmptySectionReport

\* C12, amended: when extraction yields only the placeholder and every
\* entry of the concept-reference map has a concepts string (or the map is
\* missing or unreadable), main returns exactly the one-section report
\* (A) with empty topic, explanation, categories and reference sub-list;
\* with an entry that has no concepts string, scoring the placeholder
\* raises and main returns the fallback.
C12_PlaceholderReportedIfScored ==
    (Done /\ Exhausted) =>
        /\ ~MapUnreadableEntry =>
              /\ result[1] = EmptySectionReport
              /\ result[1] # NoReferencesFound
              /\ relevant_references
                    = List(<<SetItem(Placeholder.items[1],
                                     "recommended_references", List(<<>>))>>)
        /\ MapUnreadableEntry => result[1] = NoReferencesFound

\* The placeholder run over a map with entries: one empty section.
C12_Witness ==
    /\ Done /\ Exhausted
    /\ refer_file = FileFive
    /\ result[1] = EmptySectionReport

-----------------------------------------------------------------------------
(* The corpus store applied to present, missing and unreadable files *)

InitCorpus ==
    /\ pc = "load"
    /\ topic_file \in TopicFiles \cup {FileCorrupt}
    /\ refer_file \in AssembleFiles
    /\ concepts \in ScoreConcepts
    /\ data = None /\ ret = None /\ response = None
    /\ attempts = 0 /\ calls = 0 /\ history = <<>>
    /\ relevant_topics = None /\ relevant_references = None
    /\ chain_of_thought = <<>> /\ result = None

CallGetTopicList ==
    /\ pc = "load"
    /\ ret' = get_topic_list(topic_file)
    /\ pc' = "score"
    /\ UNCHANGED <<topic_file, refer_file, data, concepts, response, attempts,
                   calls, history, relevant_topics, relevant_references,
                   chain_of_thought, result>>

NextCorpus == CallGetTopicList \/ CallFindReferences

SpecCorpus == InitCorpus /\ [][NextCorpus]_vars

Unavailable(file) == file.kind \in {"missing", "corrupt"}

\* C13: when a backing dataset is missing or unreadable the load gives an
\* empty corpus: get_topic_list returns no categories, find_references
\* returns ([], 0) for every related_categories, and neither raises.
C13_LoadFailureDegrades ==
    /\ (pc = "score" /\ Unavailable(topic_file)) =>
          /\ ~ret.raised
          /\ ret.value = List(<<>>)
    /\ (pc = "scored" /\ Unavailable(refer_file)) =>
          /\ ~ret.raised
          /\ ret.value = <<<<>>, 0>>

\* Two categories scored against a missing map: nothing found, no raise.
C13_Witness ==
    /\ pc = "scored"
    /\ refer_file = FileMissing
    /\ topic_file = FileCorrupt
    /\ concepts = List(<<W("A"), W("B")>>)
    /\ ret = Returned(<<<<>>, 0>>)

-----------------------------------------------------------------------------
(* Claims about the narrative and about what find_topics hands on *)

\* A record of the category corpus has no category key: get_topic_list
\* raises and the extraction stage fails as a whole.
CategoryRecordBroken ==
    \E i \in 1..Len(openfile(topic_file).items) :
        "category" \notin DOMAIN openfile(topic_file).items[i].fields

\* C14: in every run of main the narrative is extended exactly once per
\* stage and in fixed order: the Step 1 text, then Step 2, then Step 3;
\* Step 2 and Step 3 are appended whether or not the earlier stage
\* failed, a failed stage contributing its fixed "not found" sentence.
C14_NarrativeInStepOrder ==
    /\ pc \in {"start", "find_topics"} => chain_of_thought = <<Step1>>
    /\ pc = "references" => Len(chain_of_thought) = 2
    /\ pc \in {"format", "done"} => Len(chain_of_thought) = 3
    /\ \A k \in 1..Len(chain_of_thought) : chain_of_thought[k].step = k
    /\ chain_of_thought[1].shown = W("term_paper_string")
    /\ Len(chain_of_thought) >= 2 =>
          IF CategoryRecordBroken
          THEN chain_of_thought[2].shown = W("No relevant topics found.")
          ELSE chain_of_thought[2].shown = ret.value
    /\ Len(chain_of_thought) >= 3 =>
          /\ chain_of_thought[3].shown = relevant_references
          /\ chain_of_thought[3].shown.kind = "list"
    /\ Done => result[2] = chain_of_thought

\* After a failed extraction the run still appended Step 3.
C14_Witness ==
    /\ Done
    /\ CategoryRecordBroken
    /\ result[2] = <<[step |-> 1, shown |-> W("term_paper_string")],
                     [step |-> 2, shown |-> W("No relevant topics found.")],
                     [step |-> 3, shown |-> List(<<>>)]>>

\* C15 as the spec states it: whatever the external capability returns,
\* the list returned by find_topics has at least one element.
C15_AtLeastOneTopic ==
    ret # None => Len(ret.value.items) >= 1

\* C15, amended: find_topics always returns a list; the list has at least
\* one element unless the response it accepted is the empty list [], which
\* passes validate_structure and is returned as it is: then the assembler
\* and the formatter iterate over no topic and the report is empty.
C15_EmptyOnlyIfEmptyResponse ==
    ret # None =>
        /\ ~ret.raised
        /\ ret.value.kind = "list"
        /\ Len(ret.value.items) = 0 <=> response = Returned(List(<<>>))
        /\ history[Len(history)] = "raise" => Len(ret.value.items) = 1
        /\ (Done /\ Len(ret.value.items) = 0) =>
              /\ relevant_references = List(<<>>)
              /\ result[1] = Str(<<>>)

\* The chain answered [] after a raise; find_topics returned it and main
\* returned the empty report.
C15_Witness ==
    /\ Done
    /\ history = <<"raise", "valid">>
    /\ ret = Returned(List(<<>>))
    /\ result[1] = Str(<<>>)

-----------------------------------------------------------------------------
(* Claims about the empty category list and about what enrichment keeps *)

\* C16 as the spec states it: find_references called with
\* related_categories = [] returns an empty ranked list and total_count 0
\* for every concept-reference map.
C16_EmptyCategoriesAnyMap ==
    (pc = "scored" /\ concepts = List(<<>>)) =>
        /\ ~ret.raised
        /\ ret.value = <<<<>>, 0>>

\* C16, amended: with related_categories = [] find_references returns
\* ([], 0) for every map each of whose entries is a mapping with a
\* concepts string (the references of an entry are never looked at, so
\* they may be missing or malformed), and for a missing or unreadable
\* file; on a map with an entry that has no concepts key it raises.
C16_EmptyCategoriesReadableMap ==
    (pc = "scored" /\ concepts = List(<<>>)) =>
        IF MapUnreadableEntry
        THEN ret.raised
        ELSE ret = Returned(<<<<>>, 0>>)

\* Empty categories against a map of two entries with references, one of
\* them with a reference record that has no Title.
C16_Witness ==
    /\ pc = "scored" /\ concepts = List(<<>>)
    /\ refer_file = List(<<Entry(<<"A">>, <<R3, R1>>),
                           Entry(<<"B">>, <<R2, RNoTitle>>)>>)
    /\ ret = Returned(<<<<>>, 0>>)

\* C17: find_relevent_refs returns the same number of topics in the same
\* order, and for every topic the topic text, the explanation and
\* related_categories are unchanged; the only change to a topic is the
\* added recommended_references field.
C17_EnrichmentKeepsTopics ==
    (pc = "assembled" /\ ~ret.raised) =>
        /\ ret.value.kind = "list"
        /\ Len(ret.value.items) = Len(data.items)
        /\ \A i \in 1..Len(data.items) :
              LET before == data.items[i].fields
                  after == ret.value.items[i].fields
              IN /\ \A k \in {"topic", "subject_explaination",
                              "related_categories"} :
                        k \in DOMAIN after /\ after[k] = before[k]
                 /\ DOMAIN before \subseteq DOMAIN after
                 /\ \A k \in DOMAIN before : after[k] = before[k]
                 /\ DOMAIN after \ DOMAIN before
                        \subseteq {"recommended_references"}

\* Three different topics, all enriched, the first with two records.
C17_Witness ==
    /\ pc = "assembled" /\ ~ret.raised
    /\ data.items = <<Topic(<<W("A"), W("B")>>), Topic(<<>>), Topic(<<W("B")>>)>>
    /\ \A i \in 1..3 : Enriched(ret.value.items[i])
    /\ Len(ret.value.items[1].fields["recommended_references"].items) = 2

\* C18: if after find_relevent_refs at least one topic lacks
\* recommended_references, format_relevant_refs fails on that topic and
\* main returns "No references found" as the whole report, the sections
\* of the enriched topics included, while the returned narrative still
\* holds the Step 2 text (the extracted topics) and the Step 3 text (the
\* assembled topics).
C18_OneBareTopicLosesReport ==
    (/\ Done
     /\ relevant_references.kind = "list"
     /\ \E i \in 1..Len(relevant_references.items) :
           "recommended_references"
               \notin DOMAIN relevant_references.items[i].fields) =>
        /\ result[1] = W("No references found")
        /\ Len(result[2]) = 3
        /\ result[2][2] = [step |-> 2, shown |-> ret.value]
        /\ result[2][3] = [step |-> 3, shown |-> relevant_references]

\* One topic was enriched with a record and the other was not; the
\* report is the fallback all the same.
C18_Witness ==
    /\ Done
    /\ Len(relevant_references.items) = 2
    /\ Enriched(relevant_references.items[1])
    /\ Len(relevant_references.items[1].fields["recommended_references"].items) = 1
    /\ ~Enriched(relevant_references.items[2])
    /\ result[1] = W("No references found")
    /\ result[2][3].shown = relevant_references

====
